---- MODULE Spec2Model ----
(***************************************************************************)
(* Risk-gated refund approval pipeline of the e-commerce agent:            *)
(*   - case intake (graph nodes handle_refund, check_refund_eligibility),  *)
(*   - the reviewer decision endpoint (admin_decision),                    *)
(*   - the Celery side-effect tasks (process_refund_payment,               *)
(*     send_refund_sms, notify_admin_audit) and their retry behaviour,     *)
(*   - the WebSocket ConnectionManager through which status changes are    *)
(*     pushed to the customer's thread and to the connected admins.        *)
(* The database is PostgreSQL at READ COMMITTED: a transaction sees only   *)
(* committed rows, an UPDATE takes the row lock until commit or rollback,  *)
(* and the ORM's UPDATE carries only the columns whose value differs from  *)
(* the value that was loaded.  A timestamp is abstracted to the invocation *)
(* that read the clock: k for the k-th decision call, -c for the intake of *)
(* request c.  The broker delivers task messages oldest first and a task   *)
(* function runs to its end in one step.                                   *)
(***************************************************************************)
EXTENDS Integers, Sequences, FiniteSets, TLC

\* ---------------------------------------------------------------- bounds
MaxCases  == 1      \* refund requests submitted
MaxCalls  == 2      \* calls of the decision endpoint
MaxFailingTasks == 1   \* tasks whose executions raise an exception
MaxCrashes      == 1   \* tasks whose worker dies while they run
MaxServiceCalls == 2   \* calls of the refund service
MaxTabs         == 2   \* WebSocket connections a customer opens
MaxMissed       == 2   \* heartbeat intervals a connection is seen to miss

\* ------------------------------------------------------ program constants
HIGH_RISK_REFUND_AMOUNT   == 2000
MEDIUM_RISK_REFUND_AMOUNT == 500
SmsMaxRetries     == 3
PaymentMaxRetries == 3
NotifyMaxRetries  == 2
REFUND_DEADLINE_DAYS == 7

Cases   == 1 .. MaxCases
Admins  == {1, 2}
Amounts == {100, 500, 2500}
RequestActions == {"APPROVE", "REJECT"}
Kinds   == {"process_payment", "send_sms", "notify_admin"}
\* Task ids: one notification per request, two tasks per decision call
JobIds  == 1 .. (MaxCases + 2 * MaxCalls)
\* WebSocket connections of customers; the thread of request c is thread c.
\* Tabs are all the connections a customer may open, Sockets the one that
\* is followed together with the approval pipeline
Tabs    == 1 .. MaxTabs
Sockets == {1}
\* Users, and the orders of table orders that the refund requests of the
\* approval pipeline are about: order o was placed by user o
Users  == {1, 2}
Orders == {1, 2}
\* Every order of table orders, with those that a refund rule turns down
SeededOrders == 1 .. 7
\* The customer whose chat requests the approval pipeline follows, asking
\* for the refund of an order of theirs
Customer == 1
\* Another logged-in user, and the WebSocket connections that user opens
\* (numbered after the customer's)
Stranger == 2
StrangerTabs == {MaxTabs + 1}
Connections  == Tabs \cup StrangerTabs
\* Calls of the refund service; the row a call inserts is numbered after it
ServiceCalls == (MaxCases + 1) .. (MaxCases + MaxServiceCalls)
\* Row ids of table refund_applications
Applications == Cases \cup ServiceCalls
\* Order totals around and between the two thresholds
RiskAmounts == {a \in 0 .. 2100 : a % 50 \in {0, 1, 49}}

\* None of a nullable column, and an absent row
None  == 0
NoRow == [id |-> 0]

\* AdminDecisionRequest: approvals are sent without a comment, rejections
\* with one (the comment is named after the call that carries it)
RequestComment(action, call) == IF action = "APPROVE" THEN None ELSE call

VARIABLES
    refund_applications,  \* committed rows of table refund_applications
    audit_logs,           \* committed rows of table audit_logs
    intake,               \* position of the chat workflow for each request
    decide,               \* the admin_decision call of each reviewer
    jobs,                 \* every Celery task sent so far, by task id
    queue,                \* the broker: ids of the task messages to deliver
    settlements,          \* calls of the payment gateway, per case
    events,               \* calls of notify_status_change, with their recipients
    calls,                \* admin_decision calls started
    hub,                  \* the ConnectionManager singleton
    sockets,              \* WebSocket connections whose endpoint is serving
    service,              \* calls of RefundApplicationService in progress
    missed,               \* heartbeat intervals a connection has let pass
    publish,              \* the notify_status_change call suspended in a send
    closed                \* connections websocket_endpoint has closed, with the reason

vars == <<refund_applications, audit_logs, intake, decide, jobs, queue, settlements,
          events, calls, hub, sockets, service, missed, publish, closed>>

\* ------------------------------------------------------------ pure helpers

RiskLevel_strict(amount) ==
    IF amount > HIGH_RISK_REFUND_AMOUNT THEN "HIGH"
    ELSE IF amount > MEDIUM_RISK_REFUND_AMOUNT THEN "MEDIUM"
    ELSE "LOW"

RiskLevel_swapped(amount) ==
    IF amount >= HIGH_RISK_REFUND_AMOUNT THEN "MEDIUM"
    ELSE IF amount >= MEDIUM_RISK_REFUND_AMOUNT THEN "HIGH"
    ELSE "LOW"

\* check_refund_eligibility: the risk tier of a refund amount
RiskLevel(amount) ==
    IF amount >= HIGH_RISK_REFUND_AMOUNT THEN "HIGH"
    ELSE IF amount >= MEDIUM_RISK_REFUND_AMOUNT THEN "MEDIUM"
    ELSE "LOW"

\* The ORM flush: UPDATE sets exactly the columns whose new value differs
\* from the loaded one; the other columns keep their committed value.
OrmUpdate(committed, loaded, new) ==
    [f \in DOMAIN committed |->
        IF new[f] # loaded[f] THEN new[f] ELSE committed[f]]

\* admin_decision line 125
ActionEnum(action) == IF action = "APPROVE" THEN "APPROVE" ELSE "REJECT"

AlreadyProcessed_open(row) == FALSE

\* admin_decision line 118: the audit has left PENDING
AlreadyProcessed(row) == row.action # "PENDING"

DecideEarlyReturn_ok(row) ==
    IF row = NoRow THEN "E404"
    ELSE IF AlreadyProcessed(row) THEN "OK"
    ELSE "CONTINUE"

\* admin_decision lines 112-122: the two early HTTP errors
DecideEarlyReturn(row) ==
    IF row = NoRow THEN "E404"
    ELSE IF AlreadyProcessed(row) THEN "E400"
    ELSE "CONTINUE"

\* admin_decision lines 126-129: the audit row as mutated in the session
DecidedAudit(row, admin, action, comment, t) ==
    [row EXCEPT !.action = ActionEnum(action),
                !.admin_id = admin,
                !.admin_comment = comment,
                !.reviewed_at = t]

\* admin_decision lines 143-147 and 163-166: the refund row as mutated
DecidedRefund(row, admin, action, comment, t) ==
    [row EXCEPT !.status = IF ActionEnum(action) = "APPROVE"
                           THEN "APPROVED" ELSE "REJECTED",
                !.admin_note = comment,
                !.reviewed_by = admin,
                !.reviewed_at = t]

\* max_retries of the task decorators
MaxRetries(kind) ==
    CASE kind = "send_sms"        -> SmsMaxRetries
      [] kind = "process_payment" -> PaymentMaxRetries
      [] kind = "notify_admin"    -> NotifyMaxRetries

\* Task.delay(): a new task message, never deduplicated
NewJob(kind, c, call) ==
    [kind |-> kind, case |-> c, call |-> call, retries |-> 0,
     status |-> "QUEUED"]

\* raise self.retry(exc=exc): re-queue with retries+1, or fail for good
\* once max_retries is used up
Retry(job) ==
    IF job.retries >= MaxRetries(job.kind)
    THEN [job EXCEPT !.status = "FAILED"]
    ELSE [job EXCEPT !.status = "QUEUED", !.retries = @ + 1]

\* A reviewer's call before it starts.  `call` numbers the calls in the
\* order they start and `late` records that the call found a decision
\* already committed when it read the audit log; neither is read by the
\* handler.
IdleCall == [pc |-> "idle", case |-> 0, action |-> "NONE", comment |-> None,
             audit |-> NoRow, refund |-> NoRow, late |-> FALSE,
             call |-> 0, result |-> "NONE", is_admin |-> TRUE]

\* ------------------------------------------------ the ConnectionManager
\* admin_connections holds one connection per admin id and is kept as the
\* set of its keys; active_connections holds one connection per thread of
\* the customer, and active_connections_other the same for the other user;
\* thread_subscribers holds every connection that was added to the thread
\* and not discarded.

\* ConnectionManager.__init__
EmptyHub ==
    [active_connections |-> [t \in Cases |-> None],
     active_connections_other |-> [t \in Cases |-> None],
     thread_subscribers |-> [t \in Cases |-> {}],
     admin_connections  |-> {}]

\* send_to_thread: the message goes to every subscriber of the thread; the
\* subscribers whose send raised are dropped from the thread afterwards
SendToThread(hb, thread, failed) ==
    [hb EXCEPT !.thread_subscribers[thread] = @ \ failed]

\* broadcast_to_admins: the same for the admin connections
BroadcastToAdmins(hb, failed) ==
    [hb EXCEPT !.admin_connections = @ \ failed]

DisconnectUser_sweeping(hb, thread) ==
    LET ws == hb.active_connections[thread]
    IN [hb EXCEPT !.active_connections[thread] = None,
                  !.thread_subscribers[thread] =
                      IF ws = None THEN {} ELSE @ \ {ws}]

\* disconnect_user: the thread's active connection, when there is one, is
\* popped and discarded from the subscribers of the thread (None, the
\* result of pop for a thread without a connection, is nobody's connection)
DisconnectUser(hb, thread) ==
    LET ws == hb.active_connections[thread]
    IN [hb EXCEPT !.active_connections[thread] = None,
                  !.thread_subscribers[thread] = @ \ {ws}]

\* disconnect_admin: admin_connections.pop(admin_id, None)
DisconnectAdmin(hb, admin_id) ==
    [hb EXCEPT !.admin_connections = @ \ {admin_id}]

\* notify_status_change: the thread always, the admins for WAITING_ADMIN
NotifyStatusChange(hb, thread, status, failedT, failedA) ==
    IF status = "WAITING_ADMIN"
    THEN BroadcastToAdmins(SendToThread(hb, thread, failedT), failedA)
    ELSE SendToThread(hb, thread, failedT)

StatusChange_stopping(hb, thread, status, comment, failedT, failedA) ==
    [case |-> thread, status |-> status, comment |-> comment,
     to |-> IF failedT = {} THEN hb.thread_subscribers[thread] ELSE {},
     admins |-> IF status = "WAITING_ADMIN" /\ failedT = {}
                THEN hb.admin_connections \ failedA ELSE {}]

StatusChange_thread_only(hb, thread, status, comment, failedT, failedA) ==
    [case |-> thread, status |-> status, comment |-> comment,
     to |-> hb.thread_subscribers[thread] \ failedT,
     admins |-> {}]

\* The status_change message of notify_status_change with the connections
\* that received it (`to`), and the admins that received the
\* new_audit_task message sent along with WAITING_ADMIN
StatusChange(hb, thread, status, comment, failedT, failedA) ==
    [case |-> thread, status |-> status, comment |-> comment,
     to |-> hb.thread_subscribers[thread] \ failedT,
     admins |-> IF status = "WAITING_ADMIN"
                THEN hb.admin_connections \ failedA ELSE {}]

\* ------------------------------------------------------ table orders
\* OrderStatus
OrderStatus == {"PENDING", "PAID", "SHIPPED", "DELIVERED", "CANCELLED"}

\* RefundRules: the order states that allow a return, and the words in an
\* item's name that mark it as not returnable (underwear, food, made to
\* order)
ALLOWED_ORDER_STATUSES == {"DELIVERED", "SHIPPED"}
NON_REFUNDABLE_CATEGORIES == {"underwear", "food", "custom"}

\* A seeded order: its user, its state, the days since it was created and
\* the non-returnable words that occur in the names of its items
SeededOrder(user_id, status, days_passed, items) ==
    [user_id |-> user_id, status |-> status, days_passed |-> days_passed,
     items |-> items]

\* Table orders.  Orders 1 and 2 are delivered, new and returnable; order 3
\* is paid and not shipped yet, order 4 is shipped sportswear underwear,
\* order 5 is not paid yet, order 6 was created eight days ago and order 7
\* holds food
orders ==
    [o \in SeededOrders |->
        CASE o = 1 -> SeededOrder(1, "DELIVERED", 0, {})
          [] o = 2 -> SeededOrder(2, "DELIVERED", 0, {})
          [] o = 3 -> SeededOrder(2, "PAID", 0, {})
          [] o = 4 -> SeededOrder(1, "SHIPPED", 0, {"underwear"})
          [] o = 5 -> SeededOrder(1, "PENDING", 0, {})
          [] o = 6 -> SeededOrder(1, "DELIVERED", REFUND_DEADLINE_DAYS + 1, {})
          [] o = 7 -> SeededOrder(1, "DELIVERED", 0, {"food"})]

\* Order.user_id of the seeded orders
OrderOwner(order) == orders[order].user_id

\* handle_refund lines 356-375: the node's own test of the order, its state
\* and then its items (underwear only)
handle_refund_accepts(order) ==
    /\ orders[order].status \in {"PAID", "SHIPPED", "DELIVERED"}
    /\ "underwear" \notin orders[order].items

\* _check_time_limit: not more than the deadline's days have passed
_check_time_limit(order) == orders[order].days_passed <= REFUND_DEADLINE_DAYS

\* _check_category: no item's name holds a non-returnable word
_check_category(order) == orders[order].items \cap NON_REFUNDABLE_CATEGORIES = {}

\* The chat message of a refund request: the order number and the amount
\* it names
Question(order_sn, amount) == [order_sn |-> order_sn, amount |-> amount]

handle_refund_order_any(order_sn, user_id) == order_sn

\* handle_refund lines 342-348: SELECT the order by its number and its
\* user; None when there is no such row
handle_refund_order(order_sn, user_id) ==
    IF OrderOwner(order_sn) = user_id THEN order_sn ELSE None

\* create_refund_application lines 159-164: SELECT the order by its id and
\* its user
service_order(order_id, user_id) ==
    IF OrderOwner(order_id) = user_id THEN order_id ELSE None

\* A call of the refund service before it starts
IdleService == [pc |-> "idle", order_id |-> None, user_id |-> None,
                total_amount |-> 0, result |-> "NONE"]

\* No call of notify_status_change has been made
IdlePublish ==
    [pc |-> "idle", caller |-> "none", id |-> None, thread |-> None,
     status |-> "NONE", comment |-> None, started |-> FALSE, snapshot |-> {},
     visited |-> {}, current |-> None, disconnected |-> {},
     to |-> {}, admins |-> {}]

\* ------------------------------------------------------------------- Init
Init ==
    /\ refund_applications = [r \in Applications |-> NoRow]
    /\ audit_logs = [c \in Cases |-> NoRow]
    /\ intake = [c \in Cases |-> "new"]
    /\ decide = [h \in Admins |-> IdleCall]
    /\ jobs = << >>
    /\ queue = << >>
    /\ settlements = [c \in Cases |-> 0]
    /\ events = << >>
    /\ calls = 0
    /\ hub = EmptyHub
    /\ sockets = [ws \in Connections |-> None]
    /\ service = [r \in ServiceCalls |-> IdleService]
    /\ missed = [ws \in Connections |-> 0]
    /\ publish = IdlePublish
    /\ closed = [ws \in Connections |-> ""]

\* ------------------------------------------------------------ case intake

\* handle_refund lines 325-418: the order named in the question is looked
\* up among the orders of the user (total_amount is the total of that
\* order); without such an order the node answers that it found none,
\* and an order that the node's own test of state and items turns down is
\* answered likewise; otherwise the refund application is committed PENDING
\* for the order's total.  RefundEligibilityChecker is not called.
handle_refund(c, user_id, question, total_amount) ==
    /\ intake[c] = "new"
    /\ \A d \in Cases : d < c => intake[d] # "new"
    /\ LET order == handle_refund_order(question.order_sn, user_id)
       IN IF order = None \/ ~handle_refund_accepts(order)
          THEN /\ intake' = [intake EXCEPT ![c] = "refused"]
               /\ UNCHANGED refund_applications
          ELSE /\ refund_applications' = [refund_applications EXCEPT ![c] =
                      [id |-> c, order_id |-> order, user_id |-> user_id,
                       status |-> "PENDING", reason_detail |-> question,
                       refund_amount |-> total_amount, admin_note |-> None,
                       reviewed_by |-> None, reviewed_at |-> None]]
               /\ intake' = [intake EXCEPT ![c] = "refund_created"]
    /\ UNCHANGED <<audit_logs, decide, jobs, queue, settlements, events,
                   calls, hub, sockets, service, missed, publish, closed>>

\* check_refund_eligibility lines 453-469: low risk is approved on the spot
auto_approve(c) ==
    /\ intake[c] = "refund_created"
    /\ RiskLevel(refund_applications[c].refund_amount) = "LOW"
    /\ refund_applications' = [refund_applications EXCEPT ![c] =
           [@ EXCEPT !.status = "APPROVED", !.reviewed_at = -c]]
    /\ intake' = [intake EXCEPT ![c] = "done"]
    /\ UNCHANGED <<audit_logs, decide, jobs, queue, settlements, events,
                   calls, hub, sockets, service, missed, publish, closed>>

\* check_refund_eligibility lines 477-499: the PENDING audit log is committed
create_audit_log(c) ==
    /\ intake[c] = "refund_created"
    /\ RiskLevel(refund_applications[c].refund_amount) # "LOW"
    /\ audit_logs' = [audit_logs EXCEPT ![c] =
           [id |-> c, thread_id |-> c,
            user_id |-> refund_applications[c].user_id,
            order_id |-> refund_applications[c].order_id,
            refund_application_id |-> c,
            risk_level |-> RiskLevel(refund_applications[c].refund_amount),
            action |-> "PENDING", admin_id |-> None, admin_comment |-> None,
            reviewed_at |-> None]]
    /\ intake' = [intake EXCEPT ![c] = "audit_created"]
    /\ UNCHANGED <<refund_applications, decide, jobs, queue, settlements,
                   events, calls, hub, sockets, service, missed, publish,
                   closed>>

\* check_refund_eligibility lines 501-530: notify_admin_audit.delay, then
\* WAITING_ADMIN is pushed to the thread
notify_after_audit(c) ==
    /\ intake[c] = "audit_created"
    /\ jobs' = Append(jobs, NewJob("notify_admin", c, 0))
    /\ queue' = Append(queue, Len(jobs) + 1)
    /\ \E failedT \in SUBSET hub.thread_subscribers[c],
          failedA \in SUBSET hub.admin_connections :
           /\ events' = Append(events,
                  StatusChange(hub, c, "WAITING_ADMIN", None, failedT, failedA))
           /\ hub' = NotifyStatusChange(hub, c, "WAITING_ADMIN", failedT, failedA)
    /\ intake' = [intake EXCEPT ![c] = "done"]
    /\ UNCHANGED <<refund_applications, audit_logs, decide, settlements,
                   calls, sockets, service, missed, publish, closed>>

\* check_refund_eligibility lines 458-464 and 478-496 raising (the state
\* handed to the node has no thread_id, or the commit fails): the node ends
\* with the exception and nothing after the refund application is written
check_refund_eligibility_fails(c) ==
    /\ intake[c] = "refund_created"
    /\ intake' = [intake EXCEPT ![c] = "failed"]
    /\ UNCHANGED <<refund_applications, audit_logs, decide, jobs, queue,
                   settlements, events, calls, hub, sockets, service, missed,
                   publish, closed>>

\* check_refund_eligibility lines 501-530 with .delay() raising (enqueued is
\* FALSE) or notify_status_change raising (published is FALSE): both
\* exceptions are caught and printed, and the node returns as usual.  What a
\* publish sent before it raised is not recorded.
notify_after_audit_fails(c, enqueued, published) ==
    /\ intake[c] = "audit_created"
    /\ ~(enqueued /\ published)
    /\ jobs' = IF enqueued THEN Append(jobs, NewJob("notify_admin", c, 0))
               ELSE jobs
    /\ queue' = IF enqueued THEN Append(queue, Len(jobs) + 1) ELSE queue
    /\ IF published
       THEN \E failedT \in SUBSET hub.thread_subscribers[c],
               failedA \in SUBSET hub.admin_connections :
                /\ events' = Append(events,
                       StatusChange(hub, c, "WAITING_ADMIN", None, failedT, failedA))
                /\ hub' = NotifyStatusChange(hub, c, "WAITING_ADMIN",
                                             failedT, failedA)
       ELSE UNCHANGED <<events, hub>>
    /\ intake' = [intake EXCEPT ![c] = "done"]
    /\ UNCHANGED <<refund_applications, audit_logs, decide, settlements,
                   calls, sockets, service, missed, publish, closed>>

\* ----------------------------------------------------- the refund service

\* _check_existing_refund: the applications of the order that are PENDING
\* or APPROVED (the caller takes the first, if any)
_check_existing_refund(order_id) ==
    {r \in Applications :
        /\ refund_applications[r] # NoRow
        /\ refund_applications[r].order_id = order_id
        /\ refund_applications[r].status \in {"PENDING", "APPROVED"}}

\* check_eligibility: the four rules in their order, with the rule that
\* turns the order down
check_eligibility(order) ==
    IF orders[order].status \notin ALLOWED_ORDER_STATUSES THEN "STATUS"
    ELSE IF _check_existing_refund(order) # {} THEN "EXISTING"
    ELSE IF ~_check_time_limit(order) THEN "EXPIRED"
    ELSE IF ~_check_category(order) THEN "CATEGORY"
    ELSE "OK"

\* create_refund_application lines 158-175: the order is looked up among the
\* orders of the user and check_eligibility applies the refund rules to it;
\* the call returns its refusal, or goes on to insert
create_refund_application_check(r, user_id, order_id, total_amount) ==
    /\ service[r].pc = "idle"
    /\ \A q \in ServiceCalls : q < r => service[q].pc # "idle"
    /\ LET order == service_order(order_id, user_id)
           call == [IdleService EXCEPT !.order_id = order_id,
                       !.user_id = user_id, !.total_amount = total_amount]
       IN service' = [service EXCEPT ![r] =
              IF order = None
              THEN [call EXCEPT !.pc = "done", !.result = "NO_ORDER"]
              ELSE IF check_eligibility(order) # "OK"
              THEN [call EXCEPT !.pc = "done", !.result = "NOT_ELIGIBLE"]
              ELSE [call EXCEPT !.pc = "eligible"]]
    /\ UNCHANGED <<refund_applications, audit_logs, intake, decide, jobs,
                   queue, settlements, events, calls, hub, sockets, missed,
                   publish, closed>>

\* create_refund_application lines 177-194: the application is inserted
\* PENDING for the order's total and committed
create_refund_application_commit(r) ==
    /\ service[r].pc = "eligible"
    /\ refund_applications' = [refund_applications EXCEPT ![r] =
           [id |-> r, order_id |-> service[r].order_id,
            user_id |-> service[r].user_id, status |-> "PENDING",
            reason_detail |-> Question(service[r].order_id,
                                       service[r].total_amount),
            refund_amount |-> service[r].total_amount, admin_note |-> None,
            reviewed_by |-> None, reviewed_at |-> None]]
    /\ service' = [service EXCEPT ![r] =
           [@ EXCEPT !.pc = "done", !.result = "OK"]]
    /\ UNCHANGED <<audit_logs, intake, decide, jobs, queue, settlements,
                   events, calls, hub, sockets, missed, publish, closed>>

\* create_refund_application lines 196-198: the commit raises, the session
\* is rolled back and the call returns its failure
create_refund_application_commit_fails(r) ==
    /\ service[r].pc = "eligible"
    /\ service' = [service EXCEPT ![r] =
           [@ EXCEPT !.pc = "done", !.result = "COMMIT_FAILED"]]
    /\ UNCHANGED <<refund_applications, audit_logs, intake, decide, jobs,
                   queue, settlements, events, calls, hub, sockets, missed,
                   publish, closed>>

\* ------------------------------------------------- the decision endpoint

\* admin_decision lines 105-131, entered by the caller that the dependency
\* of line 93 named h, whose token says is_admin (the handler does not see
\* it): SELECT the audit log, return 404/400 early, otherwise mutate the
\* loaded row in the session.  A caller starts a call when the previous one
\* has answered.
admin_decision_enter(h, c, action, comment, is_admin) ==
    /\ decide[h].pc \in {"idle", "done"}
    /\ calls < MaxCalls
    /\ calls' = calls + 1
    /\ LET row == audit_logs[c]
           out == DecideEarlyReturn(row)
           base == [IdleCall EXCEPT !.case = c, !.action = action,
                       !.comment = comment, !.call = calls + 1,
                       !.is_admin = is_admin,
                       !.late = (row # NoRow /\ row.action # "PENDING")]
       IN decide' = [decide EXCEPT ![h] =
              IF out = "CONTINUE"
              THEN [base EXCEPT !.pc = "loaded", !.audit = row]
              ELSE [base EXCEPT !.pc = "done", !.result = out]]
    /\ UNCHANGED <<refund_applications, audit_logs, intake, jobs, queue,
                   settlements, events, hub, sockets, service, missed,
                   publish, closed>>

\* admin_decision called by a reviewer, with an admin's token
admin_decision_read(h, c, action, comment) ==
    admin_decision_enter(h, c, action, comment, TRUE)

\* create_access_token: the token of a user or of an admin, as it reaches
\* an endpoint: valid, expired, with a bad signature, or missing
TokenStates == {"valid", "expired", "invalid", "missing"}
Token(sub, is_admin, state) ==
    [sub |-> sub, is_admin |-> is_admin, state |-> state]
Tokens ==
    {Token(u, FALSE, st) : u \in Users, st \in TokenStates} \cup
    {Token(a, TRUE, st) : a \in Admins, st \in TokenStates}

\* get_current_user_id: the user id of a valid token; None stands for the
\* HTTP 401 raised for any other token
get_current_user_id(token) ==
    IF token.state # "valid" THEN None ELSE token.sub

\* get_admin_user_id: the same, with HTTP 403 for a token that is not an
\* admin's.  No endpoint depends on it
get_admin_user_id(token) ==
    IF token.state # "valid" THEN None
    ELSE IF ~token.is_admin THEN None
    ELSE token.sub

\* admin_decision lines 89-94: Depends(get_current_user_id) names the caller
\* and the handler is entered; without a user id the request ends with the
\* dependency's error and the handler is not entered
admin_decision_call(token, c, action) ==
    LET current_admin_id == get_current_user_id(token)
    IN /\ current_admin_id # None
       /\ admin_decision_enter(current_admin_id, c, action,
                               RequestComment(action, calls + 1),
                               token.is_admin)

\* The row lock of audit_logs[c] is held by a call that flushed its UPDATE
\* and has neither committed nor rolled back
AuditRowLocked(c) ==
    \E g \in Admins : decide[g].pc = "flushed" /\ decide[g].case = c

\* admin_decision lines 150-160: for APPROVE both tasks are sent with .delay()
DecisionJobs(c, action, call) ==
    IF ActionEnum(action) = "APPROVE"
    THEN << NewJob("process_payment", c, call), NewJob("send_sms", c, call) >>
    ELSE << >>

\* admin_decision lines 134-188: the SELECT of the refund autoflushes the
\* audit UPDATE (waiting for the row lock), the refund is mutated in the
\* session and the tasks are sent; nothing is committed yet
admin_decision_flush(h) ==
    /\ decide[h].pc = "loaded"
    /\ ~AuditRowLocked(decide[h].case)
    /\ decide' = [decide EXCEPT ![h] =
           [@ EXCEPT !.pc = "flushed",
                     !.refund = refund_applications[decide[h].case]]]
    /\ LET sent == DecisionJobs(decide[h].case, decide[h].action, decide[h].call)
       IN /\ jobs' = jobs \o sent
          /\ queue' = queue \o [i \in 1 .. Len(sent) |-> Len(jobs) + i]
    /\ UNCHANGED <<refund_applications, audit_logs, intake, settlements,
                   events, calls, hub, sockets, service, missed, publish,
                   closed>>

\* admin_decision line 190: the commit writes both rows
admin_decision_commit(h) ==
    /\ decide[h].pc = "flushed"
    /\ LET c == decide[h].case
           d == decide[h]
       IN /\ audit_logs' = [audit_logs EXCEPT ![c] =
                 OrmUpdate(@, d.audit,
                     DecidedAudit(d.audit, h, d.action, d.comment, d.call))]
          /\ refund_applications' = [refund_applications EXCEPT ![c] =
                 OrmUpdate(@, d.refund,
                     DecidedRefund(d.refund, h, d.action, d.comment, d.call))]
    /\ decide' = [decide EXCEPT ![h] =
           [@ EXCEPT !.pc = "committed", !.audit = NoRow, !.refund = NoRow]]
    /\ UNCHANGED <<intake, jobs, queue, settlements, events, calls, hub,
                   sockets, service, missed, publish, closed>>

\* admin_decision line 190 raising: the session rolls back, the exception
\* leaves the handler (HTTP 500); what .delay() already sent stays sent
admin_decision_commit_fails(h) ==
    /\ decide[h].pc = "flushed"
    /\ decide' = [decide EXCEPT ![h] =
           [@ EXCEPT !.pc = "done", !.result = "E500", !.audit = NoRow,
                     !.refund = NoRow]]
    /\ UNCHANGED <<refund_applications, audit_logs, intake, jobs, queue,
                   settlements, events, calls, hub, sockets, service, missed,
                   publish, closed>>

admin_decision_notify_early(h) ==
    /\ decide[h].pc = "flushed"
    /\ \E failedT \in SUBSET hub.thread_subscribers[decide[h].case] :
           /\ events' = Append(events,
                  StatusChange(hub, decide[h].case, decide[h].action,
                               decide[h].comment, failedT, {}))
           /\ hub' = NotifyStatusChange(hub, decide[h].case, decide[h].action,
                                        failedT, {})
    /\ decide' = [decide EXCEPT ![h] = [@ EXCEPT !.pc = "done", !.result = "OK"]]
    /\ UNCHANGED <<refund_applications, audit_logs, intake, jobs, queue,
                   settlements, calls, sockets, service, missed, publish,
                   closed>>

\* admin_decision lines 192-207: push the status change, answer success
admin_decision_notify(h) ==
    /\ decide[h].pc = "committed"
    /\ \E failedT \in SUBSET hub.thread_subscribers[decide[h].case] :
           /\ events' = Append(events,
                  StatusChange(hub, decide[h].case, decide[h].action,
                               decide[h].comment, failedT, {}))
           /\ hub' = NotifyStatusChange(hub, decide[h].case, decide[h].action,
                                        failedT, {})
    /\ decide' = [decide EXCEPT ![h] = [@ EXCEPT !.pc = "done", !.result = "OK"]]
    /\ UNCHANGED <<refund_applications, audit_logs, intake, jobs, queue,
                   settlements, calls, sockets, service, missed, publish,
                   closed>>

\* ---------------------------------------- a publish suspended in a send
\* notify_status_change awaits send_json inside the for loops of
\* send_to_thread and broadcast_to_admins.  While the call is suspended in
\* a send the event loop runs the endpoints of other connections, which
\* change the set and the dict the loops iterate over; between the return
\* of a send and the next send nothing else runs.  The iterator of a set
\* or a dict raises RuntimeError from next() when the size of its
\* collection is not the size it had when the iterator was made; when the
\* size is the same and the members are not, what it still yields is not
\* defined: any member not yet yielded, or nothing more (a dict may also
\* raise).  One call is followed at a time.

\* A call of notify_status_change is suspended in one of its two loops
Publishing == publish.pc \in {"thread", "admins"}

\* notify_status_change lines 113-122: the call enters send_to_thread
NotifyStatusChangeCall(caller, id, thread, status, comment) ==
    [IdlePublish EXCEPT !.pc = "thread", !.caller = caller, !.id = id,
                        !.thread = thread, !.status = status,
                        !.comment = comment]

\* The iterator as the for statement asks it for the next member: made on
\* the first request, over the collection as it is then
IteratorOf(p, now) ==
    [p EXCEPT !.started = TRUE,
              !.snapshot = IF p.started THEN p.snapshot ELSE now]

\* The caller of notify_status_change waits for it
CallerWaits(p) ==
    IF p.caller = "admin_decision"
    THEN /\ decide' = [decide EXCEPT ![p.id] = [@ EXCEPT !.pc = "publishing"]]
         /\ UNCHANGED intake
    ELSE /\ intake' = [intake EXCEPT ![p.id] = "publishing"]
         /\ UNCHANGED decide

\* notify_status_change has ended, normally or with the RuntimeError of
\* an iterator, and its caller goes on: admin_decision answers success
\* (lines 202-207) or lets the exception out (HTTP 500), and
\* check_refund_eligibility catches and prints it (lines 521-522)
NotifyStatusChangeEnds(p, raised) ==
    /\ publish' = [IdlePublish EXCEPT
                       !.pc = IF raised THEN "raised" ELSE "returned",
                       !.caller = p.caller, !.id = p.id]
    /\ events' = Append(events,
           [case |-> p.thread, status |-> p.status, comment |-> p.comment,
            to |-> p.to, admins |-> p.admins])
    /\ IF p.caller = "admin_decision"
       THEN /\ decide' = [decide EXCEPT ![p.id] =
                   [@ EXCEPT !.pc = "done",
                             !.result = IF raised THEN "E500" ELSE "OK"]]
            /\ UNCHANGED intake
       ELSE /\ intake' = [intake EXCEPT ![p.id] = "done"]
            /\ UNCHANGED decide

\* broadcast_to_admins line 93: the for statement asks the iterator of
\* admin_connections.items() for the next admin and the call is suspended
\* in the send to that admin (line 95); RuntimeError leaves
\* broadcast_to_admins and notify_status_change; at the end of the loop
\* the admins whose send raised are disconnected (lines 101-102).  hb is
\* the registry as the call has left it so far
broadcast_to_admins_for(p0, hb) ==
    LET now == hb.admin_connections
        p == IteratorOf(p0, now)
    IN \/ /\ Cardinality(now) # Cardinality(p.snapshot) \/ now # p.snapshot
          /\ NotifyStatusChangeEnds(p, TRUE)
          /\ hub' = hb
       \/ /\ Cardinality(now) = Cardinality(p.snapshot)
          /\ \E a \in now \ p.visited :
                 /\ publish' = [p EXCEPT !.pc = "admins", !.current = a,
                                         !.visited = @ \cup {a}]
                 /\ CallerWaits(p)
                 /\ hub' = hb
                 /\ UNCHANGED events
       \/ /\ Cardinality(now) = Cardinality(p.snapshot)
          /\ now \ p.visited = {}
          /\ hub' = BroadcastToAdmins(hb, p.disconnected)
          /\ NotifyStatusChangeEnds(p, FALSE)

\* send_to_thread line 80: the for statement asks the iterator of the
\* thread's subscribers for the next connection and the call is suspended
\* in the send to it (line 82); RuntimeError leaves send_to_thread and
\* notify_status_change; at the end of the loop the connections whose send
\* raised are taken out of the set (line 88) and WAITING_ADMIN goes on to
\* the admins (lines 125-131)
send_to_thread_for(p0) ==
    LET now == hub.thread_subscribers[p0.thread]
        p == IteratorOf(p0, now)
    IN IF Cardinality(now) # Cardinality(p.snapshot)
       THEN /\ NotifyStatusChangeEnds(p, TRUE)
            /\ UNCHANGED hub
       ELSE \/ \E ws \in now \ p.visited :
                  /\ publish' = [p EXCEPT !.current = ws,
                                          !.visited = @ \cup {ws}]
                  /\ CallerWaits(p)
                  /\ UNCHANGED <<hub, events>>
            \/ /\ now \ p.visited = {} \/ now # p.snapshot
               /\ IF p.status = "WAITING_ADMIN"
                  THEN broadcast_to_admins_for(
                           [p EXCEPT !.started = FALSE, !.snapshot = {},
                                     !.visited = {}, !.disconnected = {}],
                           SendToThread(hub, p.thread, p.disconnected))
                  ELSE /\ hub' = SendToThread(hub, p.thread, p.disconnected)
                       /\ NotifyStatusChangeEnds(p, FALSE)

\* admin_decision lines 192-200: after the commit notify_status_change is
\* awaited for the thread of the case, outside any try
admin_decision_publish(h) ==
    /\ decide[h].pc = "committed"
    /\ ~Publishing
    /\ send_to_thread_for(
           NotifyStatusChangeCall("admin_decision", h, decide[h].case,
                                  decide[h].action, decide[h].comment))
    /\ UNCHANGED <<refund_applications, audit_logs, jobs, queue, settlements,
                   calls, sockets, service, missed, closed>>

\* check_refund_eligibility lines 501-517: notify_admin_audit.delay, then
\* notify_status_change is awaited with WAITING_ADMIN inside a try
check_refund_eligibility_publish(c) ==
    /\ intake[c] = "audit_created"
    /\ ~Publishing
    /\ jobs' = Append(jobs, NewJob("notify_admin", c, 0))
    /\ queue' = Append(queue, Len(jobs) + 1)
    /\ send_to_thread_for(
           NotifyStatusChangeCall("check_refund_eligibility", c, c,
                                  "WAITING_ADMIN", None))
    /\ UNCHANGED <<refund_applications, audit_logs, settlements, calls,
                   sockets, service, missed, closed>>

\* send_to_thread lines 81-85: send_json to the connection returns, or
\* raises and the connection is remembered as disconnected; the loop goes
\* on
send_to_thread_send(failed) ==
    /\ publish.pc = "thread"
    /\ send_to_thread_for(
           [publish EXCEPT
               !.current = None,
               !.to = IF failed THEN @ ELSE @ \cup {publish.current},
               !.disconnected = IF failed THEN @ \cup {publish.current} ELSE @])
    /\ UNCHANGED <<refund_applications, audit_logs, jobs, queue, settlements,
                   calls, sockets, service, missed, closed>>

\* broadcast_to_admins lines 94-98: send_json to the admin returns or
\* raises; the loop goes on
broadcast_to_admins_send(failed) ==
    /\ publish.pc = "admins"
    /\ broadcast_to_admins_for(
           [publish EXCEPT
               !.current = None,
               !.admins = IF failed THEN @ ELSE @ \cup {publish.current},
               !.disconnected = IF failed THEN @ \cup {publish.current} ELSE @],
           hub)
    /\ UNCHANGED <<refund_applications, audit_logs, jobs, queue, settlements,
                   calls, sockets, service, missed, closed>>

\* ------------------------------------------------------ the Celery worker
\* A worker takes the oldest task message and runs the task function to
\* its end in one step, so tasks finish in the order they are delivered.
\* The message is acknowledged when the task starts (task_acks_late is not
\* set), so RUNNING is left behind only by a worker that died in the middle.

\* The broker (a Redis list) delivers the oldest message first
Delivered(j) == queue # << >> /\ Head(queue) = j

\* self.retry publishes the task again, behind the messages already waiting
Requeue(q, job) ==
    IF job.status = "QUEUED" THEN Append(Tail(q), Head(q)) ELSE Tail(q)

\* The tasks that have raised so far, and the tasks whose worker died
\* (a crash leaves RUNNING, or FAILED with retries to spare)
FailedTasks ==
    {i \in 1 .. Len(jobs) : jobs[i].retries > 0 \/
        (jobs[i].status = "FAILED" /\ jobs[i].retries = MaxRetries(jobs[i].kind))}
CrashedTasks ==
    {i \in 1 .. Len(jobs) : jobs[i].status = "RUNNING" \/
        (jobs[i].status = "FAILED" /\ jobs[i].retries < MaxRetries(jobs[i].kind))}
MayFail(j)  == Cardinality(FailedTasks \cup {j}) <= MaxFailingTasks
MayCrash(j) == Cardinality(CrashedTasks \cup {j}) <= MaxCrashes

\* process_refund_payment lines 81-112: load the refund, call the gateway,
\* commit COMPLETED
process_refund_payment(j) ==
    /\ Delivered(j)
    /\ jobs[j].kind = "process_payment"
    /\ refund_applications[jobs[j].case] # NoRow
    /\ settlements' = [settlements EXCEPT ![jobs[j].case] = @ + 1]
    /\ refund_applications' = [refund_applications EXCEPT ![jobs[j].case] =
           [@ EXCEPT !.status = "COMPLETED"]]
    /\ jobs' = [jobs EXCEPT ![j] = [@ EXCEPT !.status = "DONE"]]
    /\ queue' = Tail(queue)
    /\ UNCHANGED <<audit_logs, intake, decide, events, calls, hub, sockets,
                   service, missed, publish, closed>>

process_refund_payment_fails_reverting(j, gatewayCalled) ==
    /\ Delivered(j)
    /\ jobs[j].kind = "process_payment"
    /\ MayFail(j)
    /\ settlements' = IF gatewayCalled
                   THEN [settlements EXCEPT ![jobs[j].case] = @ + 1]
                   ELSE settlements
    /\ refund_applications' = [refund_applications EXCEPT ![jobs[j].case] =
           [@ EXCEPT !.status = "PENDING"]]
    /\ jobs' = [jobs EXCEPT ![j] = Retry(@)]
    /\ queue' = Requeue(queue, Retry(jobs[j]))
    /\ UNCHANGED <<audit_logs, intake, decide, events, calls, hub, sockets,
                   service, missed, publish, closed>>

\* process_refund_payment lines 114-121: an exception (of the gateway, or of
\* the commit after the gateway was called) goes to self.retry
process_refund_payment_fails(j, gatewayCalled) ==
    /\ Delivered(j)
    /\ jobs[j].kind = "process_payment"
    /\ MayFail(j)
    /\ settlements' = IF gatewayCalled
                   THEN [settlements EXCEPT ![jobs[j].case] = @ + 1]
                   ELSE settlements
    /\ jobs' = [jobs EXCEPT ![j] = Retry(@)]
    /\ queue' = Requeue(queue, Retry(jobs[j]))
    /\ UNCHANGED <<refund_applications, audit_logs, intake, decide, events,
                   calls, hub, sockets, service, missed, publish, closed>>

\* send_refund_sms lines 43-57
send_refund_sms(j) ==
    /\ Delivered(j)
    /\ jobs[j].kind = "send_sms"
    /\ jobs' = [jobs EXCEPT ![j] = [@ EXCEPT !.status = "DONE"]]
    /\ queue' = Tail(queue)
    /\ UNCHANGED <<refund_applications, audit_logs, intake, decide,
                   settlements, events, calls, hub, sockets, service, missed,
                   publish, closed>>

\* send_refund_sms lines 59-62
send_refund_sms_fails(j) ==
    /\ Delivered(j)
    /\ jobs[j].kind = "send_sms"
    /\ MayFail(j)
    /\ jobs' = [jobs EXCEPT ![j] = Retry(@)]
    /\ queue' = Requeue(queue, Retry(jobs[j]))
    /\ UNCHANGED <<refund_applications, audit_logs, intake, decide,
                   settlements, events, calls, hub, sockets, service, missed,
                   publish, closed>>

\* notify_admin_audit lines 137-175
notify_admin_audit(j) ==
    /\ Delivered(j)
    /\ jobs[j].kind = "notify_admin"
    /\ audit_logs[jobs[j].case] # NoRow
    /\ jobs' = [jobs EXCEPT ![j] = [@ EXCEPT !.status = "DONE"]]
    /\ queue' = Tail(queue)
    /\ UNCHANGED <<refund_applications, audit_logs, intake, decide,
                   settlements, events, calls, hub, sockets, service, missed,
                   publish, closed>>

\* notify_admin_audit lines 177-181
notify_admin_audit_fails(j) ==
    /\ Delivered(j)
    /\ jobs[j].kind = "notify_admin"
    /\ MayFail(j)
    /\ jobs' = [jobs EXCEPT ![j] = Retry(@)]
    /\ queue' = Requeue(queue, Retry(jobs[j]))
    /\ UNCHANGED <<refund_applications, audit_logs, intake, decide,
                   settlements, events, calls, hub, sockets, service, missed,
                   publish, closed>>

\* The worker dies while the task runs.  Nothing in the configuration
\* re-delivers the acknowledged message: either the pool's parent reports
\* the task FAILED (child process lost, hard time limit), or the whole
\* worker is gone and the task stays RUNNING for ever.
worker_crash(j, reported) ==
    /\ Delivered(j)
    /\ MayCrash(j)
    /\ jobs' = [jobs EXCEPT ![j] =
           [@ EXCEPT !.status = IF reported THEN "FAILED" ELSE "RUNNING"]]
    /\ queue' = Tail(queue)
    /\ UNCHANGED <<refund_applications, audit_logs, intake, decide,
                   settlements, events, calls, hub, sockets, service, missed,
                   publish, closed>>

\* --------------------------------------------- the WebSocket endpoints

\* websocket_endpoint line 29 with connect_user, for a caller that the token
\* check of line 26 lets through: a new connection is accepted, becomes the
\* thread's active connection and subscribes
connect_user(ws, thread) ==
    /\ sockets[ws] = None
    /\ sockets' = [sockets EXCEPT ![ws] = thread]
    /\ missed' = [missed EXCEPT ![ws] = 0]
    /\ hub' = [hub EXCEPT !.active_connections[thread] = ws,
                          !.thread_subscribers[thread] = @ \cup {ws}]
    /\ UNCHANGED <<refund_applications, audit_logs, intake, decide, jobs,
                   queue, settlements, events, calls, service, publish,
                   closed>>

\* websocket_endpoint lines 40-41 with disconnect_user: the endpoint of ws
\* sees the disconnect and calls disconnect_user for its user and thread
disconnect_user(ws, thread) ==
    /\ sockets[ws] = thread
    /\ sockets' = [sockets EXCEPT ![ws] = None]
    /\ missed' = [missed EXCEPT ![ws] = 0]
    /\ hub' = DisconnectUser(hub, thread)
    /\ UNCHANGED <<refund_applications, audit_logs, intake, decide, jobs,
                   queue, settlements, events, calls, service, publish,
                   closed>>

\* The user that opened a connection
ConnectionUser(ws) == IF ws \in Tabs THEN Customer ELSE Stranger

\* websocket_endpoint line 29 with connect_user for the other user, who
\* names a thread in the path of the request: the connection becomes that
\* user's active connection for the thread and is added to the thread's
\* subscribers; whose thread it is is not looked at
connect_stranger(ws, thread) ==
    /\ sockets[ws] = None
    /\ sockets' = [sockets EXCEPT ![ws] = thread]
    /\ missed' = [missed EXCEPT ![ws] = 0]
    /\ hub' = [hub EXCEPT !.active_connections_other[thread] = ws,
                          !.thread_subscribers[thread] = @ \cup {ws}]
    /\ UNCHANGED <<refund_applications, audit_logs, intake, decide, jobs,
                   queue, settlements, events, calls, service, publish,
                   closed>>

\* websocket_endpoint lines 40-41 with disconnect_user for the other user
disconnect_stranger(ws, thread) ==
    /\ sockets[ws] = thread
    /\ sockets' = [sockets EXCEPT ![ws] = None]
    /\ missed' = [missed EXCEPT ![ws] = 0]
    /\ hub' = LET active == hub.active_connections_other[thread]
              IN [hub EXCEPT !.active_connections_other[thread] = None,
                             !.thread_subscribers[thread] = @ \ {active}]
    /\ UNCHANGED <<refund_applications, audit_logs, intake, decide, jobs,
                   queue, settlements, events, calls, service, publish,
                   closed>>

\* str(e) of the HTTPException get_current_user_id raises for a token
\* that is not valid (security.py lines 37-68)
TokenError(token) ==
    CASE token.state = "missing" -> "Missing authentication token"
      [] token.state = "expired" -> "Token has expired"
      [] token.state = "invalid" -> "Invalid token"

\* websocket_endpoint lines 24-45, all of it, for a new connection ws:
\* line 26 calls get_current_user_id(token), a plain def, and awaits what
\* it returns.  For a token that is not valid the call raises
\* HTTPException; for a valid token it returns an int and the await raises
\* TypeError (an int is not awaitable).  Both are caught by line 43 and the
\* connection is closed with code 1008 and str(e) as the reason (line 45);
\* connect_user of line 29 is not reached
websocket_endpoint(ws, token, thread) ==
    /\ sockets[ws] = None
    /\ closed[ws] = ""
    /\ LET user_id == get_current_user_id(token)
       IN closed' = [closed EXCEPT ![ws] =
              IF user_id = None
              THEN TokenError(token)
              ELSE "object int can't be used in 'await' expression"]
    /\ UNCHANGED <<refund_applications, audit_logs, intake, decide, jobs,
                   queue, settlements, events, calls, hub, sockets, service,
                   missed, publish>>

\* websocket_endpoint lines 32-38: the client's "ping" is received and
\* answered with "pong"; nothing else is done with it
ping(ws) ==
    /\ sockets[ws] # None
    /\ missed[ws] > 0
    /\ missed' = [missed EXCEPT ![ws] = 0]
    /\ UNCHANGED <<refund_applications, audit_logs, intake, decide, jobs,
                   queue, settlements, events, calls, hub, sockets, service,
                   publish, closed>>

\* websocket_endpoint line 34: a heartbeat interval goes by while the
\* endpoint waits in receive_text() and nothing arrives; the wait has no
\* timeout and the manager keeps no time of the last message
heartbeat_missed(ws) ==
    /\ sockets[ws] # None
    /\ missed[ws] < MaxMissed
    /\ missed' = [missed EXCEPT ![ws] = @ + 1]
    /\ UNCHANGED <<refund_applications, audit_logs, intake, decide, jobs,
                   queue, settlements, events, calls, hub, sockets, service,
                   publish, closed>>

\* admin_websocket_endpoint line 65 with connect_admin
connect_admin(a) ==
    /\ a \notin hub.admin_connections
    /\ hub' = [hub EXCEPT !.admin_connections = @ \cup {a}]
    /\ UNCHANGED <<refund_applications, audit_logs, intake, decide, jobs,
                   queue, settlements, events, calls, sockets,
                   service, missed, publish, closed>>

\* admin_websocket_endpoint lines 74-75 with disconnect_admin
disconnect_admin(a) ==
    /\ a \in hub.admin_connections
    /\ hub' = DisconnectAdmin(hub, a)
    /\ UNCHANGED <<refund_applications, audit_logs, intake, decide, jobs,
                   queue, settlements, events, calls, sockets,
                   service, missed, publish, closed>>

\* ------------------------------------------------------------------- Next
Intake ==
    \E c \in Cases :
        \/ \E a \in Amounts :
               handle_refund(c, Customer, Question(Customer, a), a)
        \/ auto_approve(c)
        \/ create_audit_log(c)
        \/ notify_after_audit(c)

Decide ==
    \E h \in Admins :
        \/ \E c \in Cases, a \in RequestActions :
               admin_decision_read(h, c, a, RequestComment(a, calls + 1))
        \/ admin_decision_flush(h)
        \/ admin_decision_commit(h)
        \/ admin_decision_commit_fails(h)
        \/ admin_decision_notify(h)

Worker ==
    \E j \in JobIds :
        \/ process_refund_payment(j)
        \/ \E g \in BOOLEAN : process_refund_payment_fails(j, g)
        \/ send_refund_sms(j)
        \/ send_refund_sms_fails(j)
        \/ notify_admin_audit(j)
        \/ notify_admin_audit_fails(j)

Crash == \E j \in JobIds, r \in BOOLEAN : worker_crash(j, r)

Next == Intake \/ Decide \/ Worker \/ Crash

Spec == Init /\ [][Next]_vars

\* Request bodies whose action is neither of the two verdicts:
\* AdminDecisionRequest.action is an unconstrained str
OtherActions == {"approve"}

IntakeFailure ==
    \E c \in Cases :
        \/ check_refund_eligibility_fails(c)
        \/ \E e, p \in BOOLEAN : notify_after_audit_fails(c, e, p)

Endpoints ==
    \/ \E ws \in Sockets, t \in Cases : connect_user(ws, t)
    \/ \E ws \in Sockets, t \in Cases : disconnect_user(ws, t)
    \/ \E a \in Admins : connect_admin(a)
    \/ \E a \in Admins : disconnect_admin(a)

TaskRuns ==
    \E j \in JobIds :
        \/ process_refund_payment(j)
        \/ send_refund_sms(j)
        \/ notify_admin_audit(j)

DecideOther ==
    \E h \in Admins, c \in Cases, a \in OtherActions :
        admin_decision_read(h, c, a, RequestComment(a, calls + 1))

\* The coordinator and its live channel: intake with its failures, the
\* decision endpoint with every request body, the WebSocket endpoints
ChannelNext == Intake \/ IntakeFailure \/ Decide \/ DecideOther \/ Endpoints

ChannelSpec == Init /\ [][ChannelNext]_vars

\* The classification of refund amounts: requests of every amount of
\* RiskAmounts go through the two intake nodes
RiskNext ==
    \E c \in Cases :
        \/ \E a \in RiskAmounts :
               handle_refund(c, Customer, Question(Customer, a), a)
        \/ auto_approve(c)
        \/ create_audit_log(c)

RiskSpec == Init /\ [][RiskNext]_vars

\* The pipeline with its live channel and a worker whose tasks run to
\* success: intake, the decision endpoint, the WebSocket endpoints, tasks
PipelineNext == Intake \/ Decide \/ Endpoints \/ TaskRuns

PipelineSpec == Init /\ [][PipelineNext]_vars

\* The decision endpoint called by one reviewer
HubDecide ==
    \E h \in {1} :
        \/ \E c \in Cases, a \in RequestActions :
               admin_decision_read(h, c, a, RequestComment(a, calls + 1))
        \/ admin_decision_flush(h)
        \/ admin_decision_commit(h)
        \/ admin_decision_notify(h)

\* The endpoints of every connection a customer opens, and of the admins
HubEndpoints ==
    \/ \E ws \in Tabs, t \in Cases : connect_user(ws, t)
    \/ \E ws \in Tabs, t \in Cases : disconnect_user(ws, t)
    \/ \E ws \in Tabs : ping(ws)
    \/ \E ws \in Tabs : heartbeat_missed(ws)
    \/ \E a \in Admins : connect_admin(a)
    \/ \E a \in Admins : disconnect_admin(a)

\* The ConnectionManager with several connections on a thread, and the
\* publishers of status changes: the intake and one reviewer's decisions
HubNext == Intake \/ HubDecide \/ HubEndpoints

HubSpec == Init /\ [][HubNext]_vars

\* The intake of a request that goes to review and one reviewer's
\* decisions, with notify_status_change as the suspendable call it is, and
\* the endpoints of the connections
PublishIntake ==
    \E c \in Cases :
        \/ \E a \in {MEDIUM_RISK_REFUND_AMOUNT} :
               handle_refund(c, Customer, Question(Customer, a), a)
        \/ create_audit_log(c)
        \/ check_refund_eligibility_publish(c)

PublishDecide ==
    \E h \in {1} :
        \/ \E c \in Cases, a \in RequestActions :
               admin_decision_read(h, c, a, RequestComment(a, calls + 1))
        \/ admin_decision_flush(h)
        \/ admin_decision_commit(h)
        \/ admin_decision_publish(h)

PublishSteps ==
    \/ \E failed \in BOOLEAN : send_to_thread_send(failed)
    \/ \E failed \in BOOLEAN : broadcast_to_admins_send(failed)

PublishEndpoints ==
    \/ \E ws \in Tabs, t \in Cases : connect_user(ws, t)
    \/ \E ws \in Tabs, t \in Cases : disconnect_user(ws, t)
    \/ \E a \in Admins : connect_admin(a)
    \/ \E a \in Admins : disconnect_admin(a)

\* The connections of the customer and of another user, who names the
\* customer's thread
SharedEndpoints ==
    \/ \E ws \in Sockets, t \in Cases : connect_user(ws, t)
    \/ \E ws \in Sockets, t \in Cases : disconnect_user(ws, t)
    \/ \E ws \in StrangerTabs, t \in Cases : connect_stranger(ws, t)
    \/ \E ws \in StrangerTabs, t \in Cases : disconnect_stranger(ws, t)
    \/ \E a \in Admins : connect_admin(a)
    \/ \E a \in Admins : disconnect_admin(a)

SharedNext == Intake \/ HubDecide \/ SharedEndpoints

SharedSpec == Init /\ [][SharedNext]_vars

\* The decision endpoint called with the token of the customer and with the
\* token of an admin
AuthDecide ==
    \/ \E token \in Tokens, c \in Cases, a \in RequestActions :
           /\ token.sub = Customer
           /\ admin_decision_call(token, c, a)
    \/ \E h \in {Customer} :
           \/ admin_decision_flush(h)
           \/ admin_decision_commit(h)
           \/ admin_decision_notify(h)

AuthNext == Intake \/ AuthDecide

AuthSpec == Init /\ [][AuthNext]_vars

\* The customer live-channel endpoint as it is written, with the tokens of
\* the customer and of the other user
EndpointCalls ==
    \E ws \in Connections, t \in Cases, st \in TokenStates :
        websocket_endpoint(ws, Token(ConnectionUser(ws), FALSE, st), t)

EndpointNext == Intake \/ EndpointCalls

EndpointSpec == Init /\ [][EndpointNext]_vars

PublishNext == PublishIntake \/ PublishDecide \/ PublishSteps \/ PublishEndpoints

PublishSpec == Init /\ [][PublishNext]_vars

\* The total of an order is that of every application made for it and of
\* every service call that has read it: an order's total does not change
HasTotal(order, total_amount) ==
    /\ \A r \in Applications :
           (refund_applications[r] # NoRow /\
            refund_applications[r].order_id = order) =>
               refund_applications[r].refund_amount = total_amount
    /\ \A r \in ServiceCalls :
           service[r].order_id = order => service[r].total_amount = total_amount

\* A refund request in the chat, of a user for one of the given orders
ChatRequest(c, os) ==
    \E u \in Users, o \in os, a, total \in Amounts :
        /\ HasTotal(o, total)
        /\ handle_refund(c, u, Question(o, a), total)

\* Refund requests in the chat, of any user for any order and amount
ChatRequests == \E c \in Cases : ChatRequest(c, Orders)

Eligibility ==
    \E c \in Cases :
        \/ auto_approve(c)
        \/ create_audit_log(c)

\* A call of the refund service, of a user for one of the given orders
ServiceRequest(r, os) ==
    \E u \in Users, o \in os, total \in Amounts :
        /\ HasTotal(o, total)
        /\ create_refund_application_check(r, u, o, total)

ServiceRequests ==
    \E r \in ServiceCalls :
        \/ ServiceRequest(r, Orders)
        \/ create_refund_application_commit(r)
        \/ create_refund_application_commit_fails(r)

\* The two ways a refund application is made: the chat workflow and the
\* refund service, for the orders of two users
OrderNext == ChatRequests \/ Eligibility \/ ServiceRequests

OrderSpec == Init /\ [][OrderNext]_vars

\* Refund requests for every seeded order, by the chat and by the service
SeededChatRequests == \E c \in Cases : ChatRequest(c, SeededOrders)

SeededServiceRequests ==
    \E r \in ServiceCalls :
        \/ ServiceRequest(r, SeededOrders)
        \/ create_refund_application_commit(r)
        \/ create_refund_application_commit_fails(r)

EligibilityNext == SeededChatRequests \/ Eligibility \/ SeededServiceRequests

EligibilitySpec == Init /\ [][EligibilityNext]_vars

\* ------------------------------------------------- renderings for the claims

Decided(c) == audit_logs[c] # NoRow /\ audit_logs[c].action # "PENDING"

JobsOf(c, kind) ==
    {j \in 1 .. Len(jobs) : jobs[j].case = c /\ jobs[j].kind = kind}

SideEffectJobs ==
    {j \in 1 .. Len(jobs) : jobs[j].kind \in {"process_payment", "send_sms"}}

\* The refund status a verdict stands for; COMPLETED is an approved refund
\* whose settlement has been carried out
StatusOf(action) ==
    IF action = "APPROVE" THEN {"APPROVED", "COMPLETED"} ELSE {"REJECTED"}

\* The ledger state of a case, read off the committed rows
CaseState(refund, audit) ==
    IF refund = NoRow THEN "NEW"
    ELSE IF refund.status = "PENDING"
         THEN (IF audit = NoRow THEN "NEW" ELSE "PENDING_REVIEW")
    ELSE IF refund.status = "REJECTED" THEN "REJECTED"
    ELSE IF audit = NoRow THEN "AUTO_APPROVED" ELSE "APPROVED"

\* The committed rows of case c are exactly what the call of reviewer w wrote
RecordedFrom(w, c) ==
    /\ audit_logs[c].action = ActionEnum(decide[w].action)
    /\ audit_logs[c].admin_id = w
    /\ audit_logs[c].admin_comment = decide[w].comment
    /\ refund_applications[c].status \in StatusOf(decide[w].action)
    /\ refund_applications[c].reviewed_by = w

\* Two calls on the same case that both passed the PENDING check, with
\* opposite verdicts, have both answered without a failed commit
RacedOpposite(g, h) ==
    /\ g # h
    /\ decide[g].pc = "done" /\ decide[h].pc = "done"
    /\ decide[g].result = "OK" /\ decide[h].result = "OK"
    /\ decide[g].case = decide[h].case
    /\ ~decide[g].late /\ ~decide[h].late
    /\ decide[g].action = "APPROVE" /\ decide[h].action = "REJECT"

\* ------------------------------------------------------------------ claims

\* C1: when an APPROVE call and a REJECT call raced on one PENDING case, the
\* committed verdict, reviewer, comment and refund status all come from one
\* of the two calls, and no settlement or SMS job of the other call exists.
C1_OneDecisionWins ==
    \A g, h \in Admins :
        RacedOpposite(g, h) =>
            \E w \in {g, h} :
                /\ RecordedFrom(w, decide[w].case)
                /\ \A j \in SideEffectJobs :
                       jobs[j].case = decide[w].case => jobs[j].call = decide[w].call

\* C2: every step of a decide call that started after a decision had been
\* committed for its case leaves both ledger rows and the job queue as they
\* were.
C2_LateDecideChangesNothing ==
    [][\A h \in Admins :
          (decide'[h] # decide[h] /\ decide'[h].late) =>
              /\ audit_logs' = audit_logs
              /\ refund_applications' = refund_applications
              /\ jobs' = jobs
              /\ queue' = queue]_vars

\* A call carrying the other verdict arrived after the decision and answered
C2_Witness ==
    \E h \in Admins :
        /\ decide[h].pc = "done" /\ decide[h].late
        /\ Decided(decide[h].case)
        /\ audit_logs[decide[h].case].action # ActionEnum(decide[h].action)

C4_NoJobBeforeCommit ==
    \A j \in SideEffectJobs :
        jobs[j].status \in {"QUEUED", "RUNNING"} =>
            refund_applications[jobs[j].case].status # "PENDING"

\* C5: a decide call whose commit failed has enqueued no job.
C5_FailedCommitEnqueuesNothing ==
    \A h \in Admins :
        (decide[h].pc = "done" /\ decide[h].result = "E500") =>
            \A j \in SideEffectJobs : jobs[j].call # decide[h].call

\* The edges of the case state machine
CaseEdge(from, to) ==
    \/ from = to
    \/ from = "NEW" /\ to \in {"AUTO_APPROVED", "PENDING_REVIEW"}
    \/ from = "PENDING_REVIEW" /\ to \in {"APPROVED", "REJECTED"}

\* C6: the state of a case changes only along NEW -> AUTO_APPROVED,
\* NEW -> PENDING_REVIEW, PENDING_REVIEW -> APPROVED and
\* PENDING_REVIEW -> REJECTED.
C6_OnlyLegalEdges ==
    [][\A c \in Cases :
          CaseEdge(CaseState(refund_applications[c], audit_logs[c]),
                   CaseState(refund_applications'[c], audit_logs'[c]))]_vars

\* C7: once the refund of a case is recorded COMPLETED, no step calls the
\* payment gateway for that case again.
C7_NoSecondSettlement ==
    [][\A c \in Cases :
          (refund_applications[c] # NoRow /\
           refund_applications[c].status = "COMPLETED") =>
              settlements'[c] = settlements[c]]_vars

\* C8: there is at most one job for a case and a job kind.
C8_OneJobPerKey ==
    \A c \in Cases, k \in Kinds : Cardinality(JobsOf(c, k)) <= 1

\* C9: once the broker has no message left to deliver, every job that was
\* sent is DONE or FAILED.
C9_EveryJobEnds ==
    queue = << >> =>
        \A j \in 1 .. Len(jobs) : jobs[j].status \in {"DONE", "FAILED"}

\* The retry accounting of C9 on its own: a task is tried at most
\* max_retries + 1 times
RetryCeiling ==
    \A j \in 1 .. Len(jobs) : jobs[j].retries <= MaxRetries(jobs[j].kind)

Reclaim(j) == Next /\ jobs'[j].status = "QUEUED"

\* C10: a job left RUNNING by a dead worker can be put back to QUEUED.
C10_CrashedJobRequeued ==
    \A j \in 1 .. Len(jobs) :
        jobs[j].status = "RUNNING" => ENABLED Reclaim(j)

\* The decision recorded for a case: the ledger state with the verdict,
\* reviewer, comment and review time of both rows
DecisionOf(refund, audit) ==
    << CaseState(refund, audit),
       IF audit = NoRow THEN << >>
       ELSE << audit.action, audit.admin_id, audit.admin_comment,
               audit.reviewed_at >>,
       IF refund = NoRow THEN << >>
       ELSE << refund.admin_note, refund.reviewed_by, refund.reviewed_at >> >>

\* C11: a step that runs a background task, a WebSocket connect or
\* disconnect, or the publish of a decision leaves the ledger state and the
\* decision fields of every case as they were.
C11_OnlyCoordinatorWrites ==
    [][(TaskRuns \/ Endpoints \/ \E h \in Admins : admin_decision_notify(h)) =>
          \A c \in Cases :
              DecisionOf(refund_applications'[c], audit_logs'[c]) =
                  DecisionOf(refund_applications[c], audit_logs[c])]_vars

\* C12: a failing execution of the settlement task of an APPROVED case,
\* whether it is retried or fails for good, leaves the case APPROVED with
\* its recorded decision.
C12_FailureKeepsApproved ==
    [][\A j \in JobIds :
          ((\E g \in BOOLEAN : process_refund_payment_fails(j, g)) /\
           CaseState(refund_applications[jobs[j].case],
                     audit_logs[jobs[j].case]) = "APPROVED") =>
              DecisionOf(refund_applications'[jobs[j].case],
                         audit_logs'[jobs[j].case]) =
                  DecisionOf(refund_applications[jobs[j].case],
                             audit_logs[jobs[j].case])]_vars

\* The settlement of an approved case has failed for good after its last
\* retry and the refund is still APPROVED
C12_Witness ==
    \E j \in 1 .. Len(jobs) :
        /\ jobs[j].kind = "process_payment"
        /\ jobs[j].status = "FAILED"
        /\ jobs[j].retries = PaymentMaxRetries
        /\ refund_applications[jobs[j].case].status = "APPROVED"
        /\ audit_logs[jobs[j].case].action = "APPROVE"

\* The chat workflow of a request has ended, with an answer or an exception
IntakeOver(c) == intake[c] \in {"done", "failed"}

\* C13: once the intake of a request has ended, whether it answered or
\* raised, a persisted case is AUTO_APPROVED when its amount is low risk and
\* has its review record otherwise.
C13_CaseCreationAtomic ==
    \A c \in Cases :
        (IntakeOver(c) /\ refund_applications[c] # NoRow) =>
            IF RiskLevel(refund_applications[c].refund_amount) = "LOW"
            THEN CaseState(refund_applications[c], audit_logs[c]) = "AUTO_APPROVED"
            ELSE audit_logs[c] # NoRow

\* The ledger write that an event announces is committed: the review record
\* exists for WAITING_ADMIN, a decision is recorded for a verdict
Authorized(e) ==
    IF e.status = "WAITING_ADMIN"
    THEN audit_logs[e.case] # NoRow
    ELSE Decided(e.case)

\* C14: every status-change event was published after the ledger write it
\* announces had committed: in every state each published event has its
\* write in the committed ledger, and the step that publishes the event of a
\* decision is taken by a call whose own commit has succeeded.
C14_PublishAfterCommit ==
    /\ [](\A i \in 1 .. Len(events) : Authorized(events[i]))
    /\ [][events' # events =>
             LET e == events'[Len(events')]
             IN /\ Authorized(e)
                /\ e.status # "WAITING_ADMIN" =>
                       \E h \in Admins :
                           /\ decide[h].pc = "committed"
                           /\ decide'[h].pc = "done"
                           /\ decide[h].case = e.case
                           /\ decide[h].action = e.status]_vars

\* WAITING_ADMIN and a verdict were published, and a decide call whose
\* commit failed has answered without publishing
C14_Witness ==
    /\ \E h \in Admins : decide[h].pc = "done" /\ decide[h].result = "E500"
    /\ \E i, k \in 1 .. Len(events) :
           /\ events[i].status = "WAITING_ADMIN"
           /\ events[k].status \in RequestActions
    /\ Len(events) = 2

\* The status under which a ledger state is shown to the customer
Rendering(state) ==
    CASE state = "PENDING_REVIEW" -> "WAITING_ADMIN"
      [] state = "APPROVED"       -> "APPROVED"
      [] state = "REJECTED"       -> "REJECTED"
      [] OTHER                    -> "PROCESSING"

\* C15: every status_change event that reaches a connection of the
\* customer's thread carries the rendering of the committed ledger state of
\* the case at the time it is published, and no event of a verdict is
\* followed by a WAITING_ADMIN event of the same case.
C15_EventMatchesLedger ==
    /\ [](\A i, k \in 1 .. Len(events) :
             (i < k /\ events[i].case = events[k].case /\
              events[i].to # {} /\ events[k].to # {} /\
              events[i].status # "WAITING_ADMIN") =>
                 events[k].status # "WAITING_ADMIN")
    /\ [][events' # events =>
             LET e == events'[Len(events')]
             IN e.to # {} =>
                    e.status = Rendering(CaseState(refund_applications[e.case],
                                                   audit_logs[e.case]))]_vars

\* The published events of a case that carry a given status
EventsOf(c, status) ==
    {i \in 1 .. Len(events) : events[i].case = c /\ events[i].status = status}

\* C16: when the intake of a low-risk request has answered, the case is
\* auto-approved, exactly one settlement job and one customer-notification
\* job exist for it, and one event with status APPROVED was published.
C16_LowRiskSettles ==
    \A c \in Cases :
        (intake[c] = "done" /\
         RiskLevel(refund_applications[c].refund_amount) = "LOW") =>
            /\ CaseState(refund_applications[c], audit_logs[c]) = "AUTO_APPROVED"
            /\ Cardinality(JobsOf(c, "process_payment")) = 1
            /\ Cardinality(JobsOf(c, "send_sms")) = 1
            /\ Cardinality(EventsOf(c, "APPROVED")) = 1

\* The tasks sent by a step
SentBy(before, after) == {after[j] : j \in (Len(before) + 1) .. Len(after)}

JobsOfCall(h, kind) ==
    {j \in 1 .. Len(jobs) : /\ jobs[j].call = decide[h].call
                            /\ jobs[j].case = decide[h].case
                            /\ jobs[j].kind = kind}

\* C18: a decide call that answered success has sent exactly one settlement
\* task and one customer-notification task when its verdict is APPROVE,
\* exactly one customer-notification task and no settlement task when its
\* verdict is REJECT, and has published one event for its case.
C18_DecideSideEffects ==
    \A h \in Admins :
        (decide[h].pc = "done" /\ decide[h].result = "OK") =>
            /\ Cardinality(JobsOfCall(h, "send_sms")) = 1
            /\ Cardinality(JobsOfCall(h, "process_payment")) =
                   IF ActionEnum(decide[h].action) = "APPROVE" THEN 1 ELSE 0
            /\ EventsOf(decide[h].case, decide[h].action) # {}

\* C19: after a decide call with verdict REJECT and a comment has answered
\* success for a case that was pending review, the case is REJECTED with the
\* comment stored in both rows, no settlement task exists for the case, and
\* an event with status REJECTED carrying the comment was published.
C19_RejectOutcome ==
    \A h \in Admins :
        (decide[h].pc = "done" /\ decide[h].result = "OK" /\
         decide[h].action = "REJECT") =>
            LET c == decide[h].case
            IN /\ CaseState(refund_applications[c], audit_logs[c]) = "REJECTED"
               /\ audit_logs[c].admin_comment = decide[h].comment
               /\ refund_applications[c].admin_note = decide[h].comment
               /\ JobsOf(c, "process_payment") = {}
               /\ \E i \in EventsOf(c, "REJECTED") :
                      events[i].comment = decide[h].comment

\* C20: a request whose amount is at least the high threshold gets a HIGH
\* review record, one whose amount is at least the medium threshold and
\* below the high one a MEDIUM review record, an amount equal to a threshold
\* counting as reaching it; a request is approved without a review record
\* exactly when its amount is below the medium threshold.
C20_TierByThreshold ==
    \A c \in Cases :
        intake[c] \in {"audit_created", "done"} =>
            LET a == refund_applications[c].refund_amount
                reviewed == audit_logs[c] # NoRow
            IN /\ a >= HIGH_RISK_REFUND_AMOUNT =>
                      reviewed /\ audit_logs[c].risk_level = "HIGH"
               /\ (a >= MEDIUM_RISK_REFUND_AMOUNT /\ a < HIGH_RISK_REFUND_AMOUNT) =>
                      reviewed /\ audit_logs[c].risk_level = "MEDIUM"
               /\ a < MEDIUM_RISK_REFUND_AMOUNT =>
                      ~reviewed /\ refund_applications[c].status = "APPROVED"
               /\ reviewed => refund_applications[c].status = "PENDING"

\* A request of exactly the high threshold has its HIGH review record
C20_Witness ==
    \E c \in Cases :
        /\ refund_applications[c] # NoRow
        /\ refund_applications[c].refund_amount = HIGH_RISK_REFUND_AMOUNT
        /\ audit_logs[c] # NoRow
        /\ audit_logs[c].risk_level = "HIGH"

\* The order of the tiers
TierRank(tier) ==
    CASE tier = "LOW" -> 0 [] tier = "MEDIUM" -> 1 [] tier = "HIGH" -> 2

\* A request whose amount has been classified by check_refund_eligibility
Classified(c) == intake[c] \in {"audit_created", "done"}

\* The tier the node gave to the request: that of its review record, LOW
\* when it was approved without one
TierOf(c) == IF audit_logs[c] = NoRow THEN "LOW" ELSE audit_logs[c].risk_level

RECURSIVE NewestFirst(_)
\* ORDER BY created_at DESC: the ids of a set of rows, the newest first
\* (rows are numbered in the order they are created)
NewestFirst(ids) ==
    IF ids = {} THEN << >>
    ELSE LET newest == CHOOSE i \in ids : \A k \in ids : k <= i
         IN << newest >> \o NewestFirst(ids \ {newest})

\* The query parameter risk_level left out (or empty): no filter
NoFilter == ""

\* get_pending_tasks lines 59-86: the audit logs whose action is PENDING,
\* of the given risk level when one is given, as the list of their ids
get_pending_tasks(risk_level) ==
    NewestFirst({c \in DOMAIN audit_logs :
        /\ audit_logs[c] # NoRow
        /\ audit_logs[c].action = "PENDING"
        /\ risk_level # NoFilter => audit_logs[c].risk_level = risk_level})

\* The elements of a list
Range(seq) == {seq[i] : i \in DOMAIN seq}

\* The cases awaiting review according to the refund applications
PendingReview ==
    {c \in DOMAIN refund_applications :
        CaseState(refund_applications[c], audit_logs[c]) = "PENDING_REVIEW"}

C22_AmountOfRequest ==
    \A c \in Cases :
        Classified(c) =>
            LET asked == refund_applications[c].reason_detail.amount
            IN /\ refund_applications[c].refund_amount = asked
               /\ TierOf(c) = RiskLevel(asked)

\* get_thread_status lines 37-101: the newest audit log of the thread and
\* the user decides the status; without one the status is PROCESSING
get_thread_status(thread_id, current_user_id) ==
    LET logs == NewestFirst({c \in DOMAIN audit_logs :
                    /\ audit_logs[c] # NoRow
                    /\ audit_logs[c].thread_id = thread_id
                    /\ audit_logs[c].user_id = current_user_id})
    IN IF logs = << >> THEN "PROCESSING"
       ELSE LET latest_audit == audit_logs[Head(logs)]
            IN CASE latest_audit.action = "PENDING" -> "WAITING_ADMIN"
                 [] latest_audit.action = "APPROVE" -> "APPROVED"
                 [] latest_audit.action = "REJECT"  -> "REJECTED"
                 [] OTHER                           -> "PROCESSING"

\* The status a customer is to see for a ledger state: an approved case is
\* APPROVED whether a reviewer or the risk rule approved it
StatusFor(state) ==
    CASE state = "PENDING_REVIEW"              -> "WAITING_ADMIN"
      [] state \in {"APPROVED", "AUTO_APPROVED"} -> "APPROVED"
      [] state = "REJECTED"                    -> "REJECTED"
      [] OTHER                                 -> "PROCESSING"

\* C24: for the thread of every refund request, the status returned to the
\* user who made the request is the rendering of the ledger state of the
\* thread's case: WAITING_ADMIN while it awaits review, APPROVED once it is
\* approved, REJECTED once it is rejected, PROCESSING otherwise.
C24_StatusRendersLedger ==
    \A c \in Cases :
        refund_applications[c] # NoRow =>
            get_thread_status(c, refund_applications[c].user_id) =
                StatusFor(CaseState(refund_applications[c], audit_logs[c]))

\* C29: no order has more than one refund application that is PENDING or
\* APPROVED, whichever way the applications were made.
C29_OneActiveRefund ==
    \A o \in Orders : Cardinality(_check_existing_refund(o)) <= 1

\* C30: every refund application is for an order of the user it was made
\* for, and a request of a user that names an order of another user, in the
\* chat or through the refund service, is refused and leaves the refund
\* applications as they were.
C30_OnlyOwnOrders ==
    /\ [](\A r \in Applications :
             refund_applications[r] # NoRow =>
                 OrderOwner(refund_applications[r].order_id) =
                     refund_applications[r].user_id)
    /\ [][\A u \in Users, o \in Orders :
             OrderOwner(o) # u =>
                 /\ \A c \in Cases :
                        (\E a, total \in Amounts :
                             handle_refund(c, u, Question(o, a), total)) =>
                            /\ refund_applications' = refund_applications
                            /\ intake'[c] = "refused"
                 /\ \A r \in ServiceCalls :
                        (\E total \in Amounts :
                             create_refund_application_check(r, u, o, total)) =>
                            /\ refund_applications' = refund_applications
                            /\ service'[r].result = "NO_ORDER"]_vars

\* A chat request and a service call that named another user's order were
\* refused, and an application made by the owner of an order is there
C30_Witness ==
    /\ \E c \in Cases : intake[c] = "refused"
    /\ \E r \in ServiceCalls :
           /\ service[r].result = "NO_ORDER"
           /\ OrderOwner(service[r].order_id) # service[r].user_id
    /\ \E r \in Applications : refund_applications[r] # NoRow

\* The connections a publish step dropped from the thread: those whose
\* send raised
DroppedFrom(thread) ==
    hub.thread_subscribers[thread] \ hub'.thread_subscribers[thread]

\* C25: a disconnect removes from the thread exactly the connection that
\* disconnected, and an event published to a thread is sent to every
\* connection that connected to the thread and has not itself disconnected.
C25_EveryTabReceives ==
    [][/\ \A ws \in Tabs, t \in Cases :
             disconnect_user(ws, t) =>
                 hub'.thread_subscribers[t] = hub.thread_subscribers[t] \ {ws}
       /\ events' # events =>
             LET e == events'[Len(events')]
             IN \A ws \in Tabs :
                    sockets[ws] = e.case =>
                        ws \in e.to \cup DroppedFrom(e.case)]_vars

\* The publisher of the new event returned from notify_status_change and
\* went on as after any publish
PublisherReturned ==
    \/ \E c \in Cases : intake[c] = "audit_created" /\ intake'[c] = "done"
    \/ \E h \in Admins : /\ decide[h].pc = "committed"
                          /\ decide'[h].pc = "done"
                          /\ decide'[h].result = "OK"

C27_DisconnectIdempotent ==
    /\ \A t \in Cases :
           /\ DisconnectUser(DisconnectUser(hub, t), t) = DisconnectUser(hub, t)
           /\ hub.active_connections[t] = None => DisconnectUser(hub, t) = hub
    /\ \A a \in Admins :
           /\ DisconnectAdmin(DisconnectAdmin(hub, a), a) = DisconnectAdmin(hub, a)
           /\ a \notin hub.admin_connections => DisconnectAdmin(hub, a) = hub

\* Every endpoint has seen its disconnect, the last of them for a thread
\* with no registered connection left, and a subscriber is still there
C27_Witness ==
    \E t \in Cases :
        /\ \A ws \in Tabs : sockets[ws] = None
        /\ hub.active_connections[t] = None
        /\ hub.thread_subscribers[t] # {}
        /\ hub.admin_connections # Admins

\* C28: a connection that has let two heartbeat intervals pass is in no
\* thread's subscribers and is no thread's active connection, and no event
\* is sent to it.
C28_SilentTabDropped ==
    /\ [](\A ws \in Tabs :
             missed[ws] >= 2 =>
                 \A t \in Cases : /\ ws \notin hub.thread_subscribers[t]
                                  /\ hub.active_connections[t] # ws)
    /\ [][events' # events =>
             \A ws \in events'[Len(events')].to : missed[ws] < 2]_vars

\* C31: the chat workflow creates a case for an order of the asking user
\* exactly when check_eligibility accepts that order.
C31_CaseOnlyIfEligible ==
    [][\A c \in Cases, u \in Users, o \in SeededOrders, a, total \in Amounts :
          (OrderOwner(o) = u /\ handle_refund(c, u, Question(o, a), total)) =>
              (intake'[c] = "refund_created" <=> check_eligibility(o) = "OK")]_vars

\* event_generator lines 47-68: what the chat stream of request c ends with.
\* When the graph ran to its end the stream closes with [DONE]; when a node
\* raised, the except branch sends the text of the exception, str(e), as the
\* stream's error event
event_generator(c) ==
    CASE intake[c] = "failed" -> [event |-> "error", error |-> "str(e)"]
      [] intake[c] \in {"done", "refused"} -> [event |-> "[DONE]", error |-> ""]
      [] OTHER -> [event |-> "token", error |-> ""]

\* The statuses a customer is shown
CoarseStatus == {"WAITING_ADMIN", "APPROVED", "REJECTED", "PROCESSING"}

\* C32: what a customer receives is a coarse status or a generic indication:
\* the chat stream never carries the text of an internal error, and the
\* status poll and the live events carry coarse statuses only.
C32_NoInternalErrorShown ==
    /\ \A c \in Cases :
           /\ event_generator(c).error = ""
           /\ \A u \in Users : get_thread_status(c, u) \in CoarseStatus
    /\ \A i \in 1 .. Len(events) : events[i].status \in CoarseStatus

\* C33: a decide call whose ledger write has committed answers success,
\* whatever happens while its status change is published.
C33_CommittedDecideSucceeds ==
    [][\A h \in Admins :
          (decide[h].pc \in {"committed", "publishing"} /\ decide'[h].pc = "done")
              => decide'[h].result = "OK"]_vars

\* C34: the review record of a case and the refund application it is
\* linked to agree in every committed state: the audit is PENDING exactly
\* when the refund is PENDING, APPROVE only when the refund is APPROVED or
\* COMPLETED, and REJECT exactly when the refund is REJECTED.
C34_AuditAndRefundAgree ==
    \A c \in Cases :
        audit_logs[c] # NoRow =>
            LET action == audit_logs[c].action
                refund == refund_applications[audit_logs[c].refund_application_id]
            IN /\ action = "PENDING" <=> refund.status = "PENDING"
               /\ action = "APPROVE" => refund.status \in {"APPROVED", "COMPLETED"}
               /\ action = "REJECT" <=> refund.status = "REJECTED"

\* C35: a decide call whose action is neither APPROVE nor REJECT is
\* refused: none of its steps changes a row, sends a task or publishes an
\* event, and it does not answer success.
C35_MalformedActionRefused ==
    [][\A h \in Admins :
          (decide'[h] # decide[h] /\ decide'[h].action \notin RequestActions) =>
              /\ audit_logs' = audit_logs
              /\ refund_applications' = refund_applications
              /\ jobs' = jobs
              /\ events' = events
              /\ decide'[h].result # "OK"]_vars

\* GET /admin/tasks lines 48-86 as answered to the bearer of a token: the
\* list for the caller that the dependency of line 51 lets through
get_pending_tasks_endpoint(token, risk_level) ==
    IF get_current_user_id(token) = None
    THEN [status |-> 401, tasks |-> << >>]
    ELSE [status |-> 200, tasks |-> get_pending_tasks(risk_level)]

\* C36: only a caller with admin privilege decides and reads the pending
\* queue: a decide call made with a token that is not an admin's changes no
\* row and sends no task in any of its steps and does not answer success,
\* and such a token is not given the list of pending tasks.
C36_OnlyAdminsDecide ==
    /\ \A token \in Tokens :
           ~token.is_admin =>
               get_pending_tasks_endpoint(token, NoFilter).status # 200
    /\ [][\A h \in Admins :
             (decide'[h] # decide[h] /\ ~decide'[h].is_admin) =>
                 /\ audit_logs' = audit_logs
                 /\ refund_applications' = refund_applications
                 /\ jobs' = jobs
                 /\ decide'[h].pc = "done"
                 /\ decide'[h].result # "OK"]_vars

\* C37: a status change of a case is delivered only to connections of the
\* user the case belongs to.
C37_OnlyOwnerReceives ==
    \A i \in 1 .. Len(events) :
        \A ws \in events[i].to :
            ConnectionUser(ws) = refund_applications[events[i].case].user_id

\* C38: a publish that is suspended in a send ends without an error
\* whatever connects or disconnects in the meantime.
C38_PublishCompletes == publish.pc # "raised"

\* C39: on the customer endpoint a new connection with a valid token is
\* registered under its user and thread, a connection with a missing,
\* expired or invalid token is closed and not registered, and a registered
\* connection stays registered until it disconnects.
C39_TokenDecidesRegistration ==
    [][/\ \A ws \in Connections, t \in Cases, token \in Tokens :
             websocket_endpoint(ws, token, t) =>
                 IF token.state = "valid"
                 THEN /\ sockets'[ws] = t
                      /\ ws \in hub'.thread_subscribers[t]
                      /\ closed'[ws] = ""
                 ELSE /\ sockets'[ws] = None
                      /\ closed'[ws] # ""
                      /\ \A t2 \in Cases : ws \notin hub'.thread_subscribers[t2]
       /\ \A ws \in Connections :
             (sockets[ws] # None /\ sockets'[ws] = None) =>
                 \E t \in Cases : disconnect_user(ws, t) \/ disconnect_stranger(ws, t)
      ]_vars

====
